---- MODULE Spec2Model ----
(***************************************************************************)
(* Model of diesel's PostgreSQL prepared statement layer,                  *)
(* diesel/src/pg/connection/stmt/mod.rs: Statement::prepare and            *)
(* Statement::execute driving one RawConnection.                           *)
(*                                                                         *)
(* Texts (SQL, statement names) are sequences of characters, the NUL byte  *)
(* being the character "NUL".  A parameter buffer Vec<u8> is the record of *)
(* what execute reads of it: its length, and whether it holds a NUL byte.  *)
(* Every invocation is one action; what it did (the native calls it made,  *)
(* in order, and what it returned) is kept in `last` until the caller      *)
(* takes the return value (Return).                                        *)
(***************************************************************************)
EXTENDS Integers, Sequences, FiniteSets, TLC

VARIABLES
    held,        \* the Statement the caller holds, with the inputs of its prepare
    in_flight,   \* the connection has a request whose results are not drained
    single_row,  \* the connection delivers the current request row by row
    last         \* the invocation that has not returned to the caller yet

vars == <<held, in_flight, single_row, last>>

----------------------------------------------------------------------------
(* Bounds and program constants *)

\* longest parameter list (values given to execute, types given to prepare)
MaxParams == 2

\* std::os::raw::c_int is i32
C_INT_MAX == 2147483647

\* A usize is the pair of its high part and its low 31 bits, hi * 2^31 + lo, so
\* that a length past the c_int range is written with 32-bit numbers only
USize(n) == [hi |-> 0, lo |-> n]
TwoTo31 == [hi |-> 1, lo |-> 0]

\* lengths of slices too long for a c_int to count: 2^31, 2^31 + 1, 2^32
LongLens == {TwoTo31, [hi |-> 1, lo |-> 1], [hi |-> 2, lo |-> 0]}

\* ptr::null()
NullPtr == 0

\* the binary wire format marker
Binary == 1

NUL == "NUL"

\* counters the statement cache hands to prepare
Counters == {0, 1, 10, 11}

\* SQL texts given to prepare; the last one has an embedded NUL byte
SqlTexts == { <<"a">>, <<"b">>, <<"a", NUL, "b">> }

\* type metadata given to prepare: one whose oid resolves, one whose lookup failed
TypeMetas == {"int4", "unresolved"}

\* parameter buffers: empty, four bytes with NUL bytes among them (42 as a
\* big-endian int4), and one longer than a c_int can count
Buffers ==
    { [len |-> USize(0), nul |-> FALSE],
      [len |-> USize(4), nul |-> TRUE],
      [len |-> TwoTo31, nul |-> FALSE] }

\* Option<Vec<u8>>
None == [some |-> FALSE, len |-> USize(0), nul |-> FALSE]
Some(b) == [some |-> TRUE, len |-> b.len, nul |-> b.nul]
ParamValues == {None} \cup {Some(b) : b \in Buffers}

SeqsUpTo(S, n) == UNION {[1..k -> S] : k \in 0..n}

\* PrepareForCache
PrepareForCacheNo == [cached |-> FALSE, counter |-> 0]
PrepareForCacheYes(c) == [cached |-> TRUE, counter |-> c]
Directives == {PrepareForCacheNo} \cup {PrepareForCacheYes(c) : c \in Counters}

----------------------------------------------------------------------------
(* Results and errors *)

Ok(v) == [ok |-> TRUE, val |-> v, err |-> "-"]
Err(e) == [ok |-> FALSE, val |-> 0, err |-> e]

\* `as c_int`: the low bits are kept
TryIntoCIntTruncating(n) == Ok(n.lo)

\* usize -> c_int, `.try_into()`
TryIntoCInt(n) ==
    IF n.hi = 0 /\ n.lo <= C_INT_MAX THEN Ok(n.lo) ELSE Err("TryFromIntError")

\* CString::new: fails on an interior NUL byte
HasNul(text) == \E i \in 1..Len(text) : text[i] = NUL

\* the text is taken as it is
CStringNewUnchecked(text) == Ok(0)

CStringNew(text) == IF HasNul(text) THEN Err("InvalidCString") ELSE Ok(0)

----------------------------------------------------------------------------
(* Statement names *)

Prefix == <<"_", "_", "d", "i", "e", "s", "e", "l", "_", "s", "t", "m", "t", "_">>

Digits == <<"0", "1", "2", "3", "4", "5", "6", "7", "8", "9">>

\* Display of an unsigned integer: its decimal digits, most significant first
RECURSIVE Decimal(_)
Decimal(n) == IF n < 10 THEN <<Digits[n + 1]>>
              ELSE Decimal(n \div 10) \o <<Digits[(n % 10) + 1]>>

\* only the last digit of the counter is written
FormatNameLastDigit(counter) == Prefix \o <<Digits[(counter % 10) + 1]>>

\* format!("__diesel_stmt_{counter}")
FormatName(counter) == Prefix \o Decimal(counter)

\* query_name.as_deref().unwrap_or("")
QueryName(is_cached) ==
    IF is_cached.cached THEN FormatName(is_cached.counter) ELSE <<>>

----------------------------------------------------------------------------
(* The Statement struct and the record of an invocation *)

NoStatement == [name |-> <<>>, param_formats |-> <<>>]

NoHeld == [some |-> FALSE, stmt |-> NoStatement, sql |-> <<>>,
           is_cached |-> PrepareForCacheNo]

NoDirective == PrepareForCacheNo

\* a native call as the connection sees it
Call(fn, name, sql, n, ptrs, lens, fmts, resfmt, types, answer) ==
    [fn |-> fn, name |-> name, sql |-> sql, nParams |-> n,
     paramValues |-> ptrs, paramLengths |-> lens, paramFormats |-> fmts,
     resultFormat |-> resfmt, paramTypes |-> types, answer |-> answer]

NoResult == [sql |-> <<>>, params |-> <<>>]

\* the native side at its most willing
NoAnswers == [query |-> <<"a">>, accepted1 |-> TRUE, accepted2 |-> TRUE,
              srm |-> TRUE, fetch |-> "ok"]

\* what an invocation returns: Ok(Statement), Ok(PgResult), Err(e) or a panic
Ret(tag, err, stmt, result) ==
    [tag |-> tag, err |-> err, stmt |-> stmt, result |-> result]

NoCall ==
    [op |-> "none", sql |-> <<>>, is_cached |-> NoDirective, param_types |-> <<>>,
     stmt |-> NoStatement, param_data |-> <<>>, row_by_row |-> FALSE,
     calls |-> <<>>, ret |-> Ret("-", "-", NoStatement, NoResult),
     server_execs |-> 0, busy_at_entry |-> FALSE, native |-> NoAnswers,
     param_count |-> USize(0), results_obtained |-> 0, results_released |-> 0]

----------------------------------------------------------------------------
(* The native connection (RawConnection over libpq) *)

\* what the blocking native prepare can come back with: no result at all (the
\* transport failed), a result whose status is an error, a result that is fine
PrepareOutcomes == {"null", "rejected", "ok"}

\* RawConnection::prepare: a null result is an error, anything else a raw result
RawPrepare(native) ==
    IF native = "null" THEN Err("UnableToSendCommand") ELSE Ok(0)

\* PgResult::new: validates the status of a raw result
PgResultNew(native) ==
    IF native = "ok" THEN Ok(0) ELSE Err("DatabaseError")

\* RawConnection::send_query_params / send_query_prepared: the connection takes
\* one request at a time, and a request it takes may still fail to be sent
NativeSend(busy, accepted) ==
    IF busy \/ ~accepted THEN Err("UnableToSendCommand") ELSE Ok(0)

\* RawConnection::enable_row_by_row_mode
NativeSingleRow(accepted) ==
    IF accepted THEN Ok(0) ELSE Err("DatabaseError")

\* RawConnection::get_next_result: a result, a result with an error status, or none
FetchOutcomes == {"ok", "error", "none"}

\* the native prepare hands back a result object unless it comes back with null
ResultsObtained(native) == IF native = "null" THEN 0 ELSE 1

\* PgResult::new releases the result it was given when its status is an error,
\* and keeps it in the PgResult otherwise
ReleasedByNew(native) == IF native = "rejected" THEN 1 ELSE 0

\* Drop of a PgResult: the native result it owns is released, once
ReleasedByDrop(native) == IF native = "ok" THEN 1 ELSE 0

\* PgTypeMetadata::oid
TypeOid(t) == IF t = "unresolved" THEN Err("FailedToLookupTypeError") ELSE Ok(23)

----------------------------------------------------------------------------
(* Statement::prepare *)

\* the types whose oid does not resolve are left out
ResolveOidsLenient(param_types) ==
    Ok(SelectSeq([i \in 1..Len(param_types) |-> TypeOid(param_types[i])],
                 LAMBDA r : r.ok))

\* param_types.iter().map(|x| x.oid()).collect::<Result<Vec<_>, _>>()
ResolveOids(param_types) ==
    IF \E i \in 1..Len(param_types) : ~TypeOid(param_types[i]).ok
    THEN Err("SerializationError")
    ELSE Ok([i \in 1..Len(param_types) |-> TypeOid(param_types[i]).val])

\* vec![1; param_types.len()]
ParamFormats(param_types) == [i \in 1..Len(param_types) |-> Binary]

\* the result of the native prepare is not validated
PrepareFinishUnvalidated(name, param_types, native) ==
    IF ~RawPrepare(native).ok
    THEN Ret("Err", RawPrepare(native).err, NoStatement, NoResult)
    ELSE Ret("Ok", "-", [name |-> name, param_formats |-> ParamFormats(param_types)],
             NoResult)

\* the tail of prepare: the native outcome is unwrapped, validated, and only
\* then is the Statement built
PrepareFinish(name, param_types, native) ==
    IF ~RawPrepare(native).ok
    THEN Ret("Err", RawPrepare(native).err, NoStatement, NoResult)
    ELSE IF ~PgResultNew(native).ok
    THEN Ret("Err", PgResultNew(native).err, NoStatement, NoResult)
    ELSE Ret("Ok", "-", [name |-> name, param_formats |-> ParamFormats(param_types)],
             NoResult)

\* the PgResult of a successful prepare is kept alive
PrepareReleasedKept(native) ==
    IF ~RawPrepare(native).ok THEN 0
    ELSE ReleasedByNew(native)

\* How often the result of the native prepare has been released when prepare
\* returns: `PgResult::new(internal_result?, raw_connection)?;` hands the result
\* to PgResult::new, and the PgResult it gives back is a temporary, dropped at
\* the end of the statement
PrepareReleased(native) ==
    IF ~RawPrepare(native).ok THEN 0
    ELSE IF ~PgResultNew(native).ok THEN ReleasedByNew(native)
    ELSE ReleasedByNew(native) + ReleasedByDrop(native)

\* One run of prepare on a slice of `len` parameter types: the native calls
\* made, in order, and the return value
PrepareSized(sql, is_cached, param_types, len, native) ==
    LET name == QueryName(is_cached)
        cname == CStringNew(name)
        csql == CStringNew(sql)
        oids == ResolveOids(param_types)
        param_count == TryIntoCInt(len)
        fail(e) == [calls |-> <<>>, ret |-> Ret("Err", e, NoStatement, NoResult),
                    obtained |-> 0, released |-> 0]
    IN  IF ~cname.ok THEN fail(cname.err)
        ELSE IF ~csql.ok THEN fail(csql.err)
        ELSE IF ~oids.ok THEN fail(oids.err)
        ELSE IF ~param_count.ok THEN fail("SerializationError")
        ELSE [calls |-> <<Call("prepare", name, sql, param_count.val,
                               <<>>, <<>>, <<>>, 0, oids.val, native)>>,
              ret |-> PrepareFinish(name, param_types, native),
              obtained |-> ResultsObtained(native),
              released |-> PrepareReleased(native)]

\* One run of prepare, param_types.len() being the length of the slice given
PrepareRun(sql, is_cached, param_types, native) ==
    PrepareSized(sql, is_cached, param_types, USize(Len(param_types)), native)

Prepare ==
    /\ last.op = "none"
    /\ \E sql \in SqlTexts, is_cached \in Directives,
          param_types \in SeqsUpTo(TypeMetas, MaxParams) :
       \* the native outcome is drawn only where the native call is reached
       \E native \in IF PrepareRun(sql, is_cached, param_types, "ok").calls = <<>>
                     THEN {"ok"} ELSE PrepareOutcomes :
          LET r == PrepareRun(sql, is_cached, param_types, native)
          IN  /\ last' = [NoCall EXCEPT !.op = "prepare", !.sql = sql,
                                        !.is_cached = is_cached,
                                        !.param_types = param_types,
                                        !.calls = r.calls, !.ret = r.ret,
                                        !.busy_at_entry = in_flight,
                                        !.param_count = USize(Len(param_types)),
                                        !.results_obtained = r.obtained,
                                        !.results_released = r.released]
              \* the blocking native prepare discards what an earlier request left
              /\ in_flight' = IF r.calls = <<>> THEN in_flight ELSE FALSE
              /\ single_row' = IF r.calls = <<>> THEN single_row ELSE FALSE
    /\ UNCHANGED held

\* prepare on a slice of more types than a c_int counts.  The types, all of
\* them resolving, are not written out: `param_types` of the record stays empty
\* and `param_count` is the length of the slice.
PrepareLong ==
    /\ last.op = "none"
    /\ \E sql \in SqlTexts, is_cached \in Directives, len \in LongLens :
          LET r == PrepareSized(sql, is_cached, <<>>, len, "ok")
          IN  /\ last' = [NoCall EXCEPT !.op = "prepare", !.sql = sql,
                                        !.is_cached = is_cached,
                                        !.calls = r.calls, !.ret = r.ret,
                                        !.busy_at_entry = in_flight,
                                        !.param_count = len,
                                        !.results_obtained = r.obtained,
                                        !.results_released = r.released]
              /\ in_flight' = IF r.calls = <<>> THEN in_flight ELSE FALSE
              /\ single_row' = IF r.calls = <<>> THEN single_row ELSE FALSE
    /\ UNCHANGED held

----------------------------------------------------------------------------
(* Statement::execute *)

\* d.as_ptr(): the address of the i-th buffer, never null
AsPtr(i) == i

\* data.as_ref().map(|d| d.as_ptr()).unwrap_or(ptr::null())
ParamsPointer(param_data) ==
    [i \in 1..Len(param_data) |->
        IF param_data[i].some THEN AsPtr(i) ELSE NullPtr]

\* data.as_ref().map(|d| d.len().try_into()).unwrap_or(Ok(0)), collected
ParamLength(data) == IF data.some THEN TryIntoCInt(data.len) ELSE Ok(0)

ParamLengths(param_data) ==
    IF \E i \in 1..Len(param_data) : ~ParamLength(param_data[i]).ok
    THEN Err("SerializationError")
    ELSE Ok([i \in 1..Len(param_data) |-> ParamLength(param_data[i]).val])

\* the branch taken for every statement, named or not
IsUnnamedAlways(stmt) == TRUE

\* self.name.to_bytes().is_empty()
IsUnnamed(stmt) == stmt.name = <<>>

\* The unsafe block of execute.  The `if` of the unnamed statement has no
\* `else` and does not return: its call is made, what it returns goes nowhere,
\* and the named call follows for every statement; the `?` sees that one.
\* The Statement keeps no SQL text, so `query` (what `self.into_sql()` hands to
\* the native call) is not decided by the statement.  `registered` is the text
\* the server holds under the statement's name.
Dispatch(stmt, query, registered, count, ptrs, lens, busy, accepted1, accepted2) ==
    LET unnamed == IsUnnamed(stmt)
        c1 == Call("send_query_params", <<>>, query, count, ptrs, lens,
                   stmt.param_formats, Binary, <<>>,
                   IF NativeSend(busy, accepted1).ok THEN "ok" ELSE "failed")
        r1 == NativeSend(busy, accepted1)
        busy1 == IF unnamed THEN busy \/ r1.ok ELSE busy
        c2 == Call("send_query_prepared", stmt.name, <<>>, count, ptrs, lens,
                   stmt.param_formats, Binary, <<>>,
                   IF NativeSend(busy1, accepted2).ok THEN "ok" ELSE "failed")
        r2 == NativeSend(busy1, accepted2)
    IN  [calls |-> IF unnamed THEN <<c1, c2>> ELSE <<c2>>,
         status |-> r2,
         busy |-> busy1 \/ r2.ok,
         execs |-> (IF unnamed /\ r1.ok THEN 1 ELSE 0) + (IF r2.ok THEN 1 ELSE 0),
         ran |-> registered]

SingleRowCall(srm) ==
    Call("enable_row_by_row_mode", <<>>, <<>>, 0, <<>>, <<>>, <<>>, 0, <<>>,
         IF srm THEN "ok" ELSE "failed")
FetchCall(fetch) ==
    Call("get_next_result", <<>>, <<>>, 0, <<>>, <<>>, <<>>, 0, <<>>, fetch)

\* the result is fetched first, single-row mode is asked for afterwards
FetchThenSingleRow(d, param_data, row_by_row, busy, single, srm, fetch) ==
    LET out(calls, ret, b, s) ==
            [calls |-> calls, ret |-> ret, in_flight |-> b, single_row |-> s,
             execs |-> d.execs]
        post == IF row_by_row THEN <<FetchCall(fetch), SingleRowCall(srm)>>
                ELSE <<FetchCall(fetch)>>
        s1 == single \/ row_by_row
    IN  IF ~d.status.ok
        THEN out(d.calls, Ret("Err", d.status.err, NoStatement, NoResult),
                 d.busy, single)
        ELSE IF fetch = "error"
        THEN out(d.calls \o <<FetchCall(fetch)>>,
                 Ret("Err", "DatabaseError", NoStatement, NoResult), d.busy, single)
        ELSE IF fetch = "none"
        THEN out(d.calls \o <<FetchCall(fetch)>>,
                 Ret("Panic", "Is never none", NoStatement, NoResult), FALSE, FALSE)
        ELSE IF row_by_row /\ ~NativeSingleRow(srm).ok
        THEN out(d.calls \o post,
                 Ret("Err", NativeSingleRow(srm).err, NoStatement, NoResult),
                 d.busy, single)
        ELSE out(d.calls \o post,
                 Ret("Ok", "-", NoStatement, [sql |-> d.ran, params |-> param_data]),
                 d.busy, s1)

\* a fetch that yields nothing is answered with an empty result
FetchDefaultOnNone(d, param_data, row_by_row, busy, single, srm, fetch) ==
    LET out(calls, ret, b, s) ==
            [calls |-> calls, ret |-> ret, in_flight |-> b, single_row |-> s,
             execs |-> d.execs]
        pre == IF row_by_row THEN d.calls \o <<SingleRowCall(srm)>> ELSE d.calls
        s1 == single \/ row_by_row
    IN  IF ~d.status.ok
        THEN out(d.calls, Ret("Err", d.status.err, NoStatement, NoResult),
                 d.busy, single)
        ELSE IF row_by_row /\ ~NativeSingleRow(srm).ok
        THEN out(pre, Ret("Err", NativeSingleRow(srm).err, NoStatement, NoResult),
                 d.busy, single)
        ELSE IF fetch = "error"
        THEN out(pre \o <<FetchCall(fetch)>>, Ret("Err", "DatabaseError", NoStatement, NoResult),
                 d.busy, s1)
        ELSE IF fetch = "none"
        THEN out(pre \o <<FetchCall(fetch)>>, Ret("Ok", "-", NoStatement, NoResult),
                 FALSE, FALSE)
        ELSE out(pre \o <<FetchCall(fetch)>>,
                 Ret("Ok", "-", NoStatement, [sql |-> d.ran, params |-> param_data]),
                 d.busy, s1)

\* What follows the dispatch: single-row mode if asked for, then one fetch
Fetch(d, param_data, row_by_row, busy, single, srm, fetch) ==
    LET out(calls, ret, b, s) ==
            [calls |-> calls, ret |-> ret, in_flight |-> b, single_row |-> s,
             execs |-> d.execs]
        pre == IF row_by_row THEN d.calls \o <<SingleRowCall(srm)>> ELSE d.calls
        s1 == single \/ row_by_row
    IN  IF ~d.status.ok
        THEN out(d.calls, Ret("Err", d.status.err, NoStatement, NoResult),
                 d.busy, single)
        ELSE IF row_by_row /\ ~NativeSingleRow(srm).ok
        THEN out(pre, Ret("Err", NativeSingleRow(srm).err, NoStatement, NoResult),
                 d.busy, single)
        ELSE IF fetch = "error"
        THEN out(pre \o <<FetchCall(fetch)>>, Ret("Err", "DatabaseError", NoStatement, NoResult),
                 d.busy, s1)
        ELSE IF fetch = "none"
        THEN out(pre \o <<FetchCall(fetch)>>, Ret("Panic", "Is never none", NoStatement, NoResult),
                 FALSE, FALSE)
        ELSE out(pre \o <<FetchCall(fetch)>>,
                 Ret("Ok", "-", NoStatement, [sql |-> d.ran, params |-> param_data]),
                 d.busy, s1)

\* One run of execute on a slice of `len` parameter values
ExecuteSized(stmt, registered, param_data, len, row_by_row, busy, single, n) ==
    LET params_pointer == ParamsPointer(param_data)
        param_lengths == ParamLengths(param_data)
        param_count == TryIntoCInt(len)
        fail(e) == [calls |-> <<>>, ret |-> Ret("Err", e, NoStatement, NoResult),
                    in_flight |-> busy, single_row |-> single, execs |-> 0]
    IN  IF ~param_lengths.ok THEN fail("SerializationError")
        ELSE IF ~param_count.ok THEN fail("SerializationError")
        ELSE Fetch(Dispatch(stmt, n.query, registered, param_count.val, params_pointer,
                            param_lengths.val, busy, n.accepted1, n.accepted2),
                   param_data, row_by_row, busy, single, n.srm, n.fetch)

\* One run of execute, params_pointer.len() being the length of the slice given
ExecuteRun(stmt, registered, param_data, row_by_row, busy, single, n) ==
    ExecuteSized(stmt, registered, param_data, USize(Len(ParamsPointer(param_data))),
                 row_by_row, busy, single, n)

\* What the native side answers over one run of execute: the text behind
\* `self.into_sql()`, whether each dispatch is accepted, whether single-row mode
\* is, and what the fetch yields.  An answer to a call the run never makes is
\* fixed, so that each run is drawn once.
NativeAnswers(stmt, row_by_row) ==
    { n \in [query : {q \in SqlTexts : ~HasNul(q)}, accepted1 : BOOLEAN,
             accepted2 : BOOLEAN, srm : BOOLEAN, fetch : FetchOutcomes] :
        /\ ~IsUnnamed(stmt) => (n.query = <<"a">> /\ n.accepted1)
        /\ ~row_by_row => n.srm
        /\ ~n.accepted2 => (n.srm /\ n.fetch = "ok")
        /\ ~n.srm => n.fetch = "ok" }

Execute ==
    /\ last.op = "none"
    /\ held.some
    /\ \E param_data \in SeqsUpTo(ParamValues, MaxParams), row_by_row \in BOOLEAN :
       \E n \in IF ParamLengths(param_data).ok
                THEN NativeAnswers(held.stmt, row_by_row)
                ELSE {NoAnswers} :
          LET r == ExecuteRun(held.stmt, held.sql, param_data, row_by_row,
                              in_flight, single_row, n)
          IN  /\ last' = [NoCall EXCEPT !.op = "execute", !.stmt = held.stmt,
                                        !.param_data = param_data,
                                        !.row_by_row = row_by_row,
                                        !.calls = r.calls, !.ret = r.ret,
                                        !.server_execs = r.execs,
                                        !.busy_at_entry = in_flight,
                                        !.native = n,
                                        !.param_count = USize(Len(param_data))]
              /\ in_flight' = r.in_flight
              /\ single_row' = r.single_row
    /\ UNCHANGED held

\* execute on a slice of more values than a c_int counts.  The values, all of
\* them absent, are not written out: `param_data` of the record stays empty and
\* `param_count` is the length of the slice.
ExecuteLong ==
    /\ last.op = "none"
    /\ held.some
    /\ \E len \in LongLens, row_by_row \in BOOLEAN :
          LET r == ExecuteSized(held.stmt, held.sql, <<>>, len, row_by_row,
                                in_flight, single_row, NoAnswers)
          IN  /\ last' = [NoCall EXCEPT !.op = "execute", !.stmt = held.stmt,
                                        !.row_by_row = row_by_row,
                                        !.calls = r.calls, !.ret = r.ret,
                                        !.server_execs = r.execs,
                                        !.busy_at_entry = in_flight,
                                        !.param_count = len]
              /\ in_flight' = r.in_flight
              /\ single_row' = r.single_row
    /\ UNCHANGED held

----------------------------------------------------------------------------
(* The caller *)

\* The invocation returns: a prepared Statement replaces the one the caller held
Return ==
    /\ last.op # "none"
    /\ held' = IF last.op = "prepare" /\ last.ret.tag = "Ok"
               THEN [some |-> TRUE, stmt |-> last.ret.stmt, sql |-> last.sql,
                     is_cached |-> last.is_cached]
               ELSE held
    /\ last' = NoCall
    /\ UNCHANGED <<in_flight, single_row>>

\* The caller fetches until the terminal empty result
Drain ==
    /\ last.op = "none"
    /\ in_flight
    /\ in_flight' = FALSE
    /\ single_row' = FALSE
    /\ UNCHANGED <<held, last>>

Init ==
    /\ held = NoHeld
    /\ in_flight = FALSE
    /\ single_row = FALSE
    /\ last = NoCall

Next == Prepare \/ Execute \/ PrepareLong \/ ExecuteLong \/ Return \/ Drain

Spec == Init /\ [][Next]_vars

----------------------------------------------------------------------------
(* Properties *)

\* the native dispatch calls of the invocation that has not returned yet
DispatchCalls ==
    {i \in 1..Len(last.calls) :
        last.calls[i].fn \in {"send_query_params", "send_query_prepared"}}

Issued(fn) == \E i \in 1..Len(last.calls) : last.calls[i].fn = fn

\* execute got past the encoding of its parameters and reached the dispatch
Dispatched == last.op = "execute" /\ DispatchCalls # {}

\* C1: within one execute, the unnamed call (send_query_params) and the named
\* call (send_query_prepared) are never both issued.
C1_AtMostOneDispatch ==
    last.op = "execute" =>
        ~(Issued("send_query_params") /\ Issued("send_query_prepared"))

\* C2: a statement prepared with PrepareForCache::No has the empty name, and an
\* execute on it issues send_query_params carrying the SQL text given to its
\* prepare.
C2_UncachedResendsItsSql ==
    /\ (last.op = "prepare" /\ last.ret.tag = "Ok" /\ ~last.is_cached.cached)
          => last.ret.stmt.name = <<>>
    /\ (Dispatched /\ ~held.is_cached.cached)
          => \E i \in DispatchCalls :
                /\ last.calls[i].fn = "send_query_params"
                /\ last.calls[i].sql = held.sql

\* C3: an execute on a named statement carries no SQL text in any native call
\* and issues no send_query_params; when it reaches the dispatch it issues
\* send_query_prepared, once, with the statement's name and one pointer and one
\* length per parameter value.
C3_NamedSendsNameOnly ==
    (last.op = "execute" /\ last.stmt.name # <<>>) =>
        /\ ~Issued("send_query_params")
        /\ \A i \in 1..Len(last.calls) : last.calls[i].sql = <<>>
        /\ last.ret.err # "SerializationError" =>
              /\ Cardinality(DispatchCalls) = 1
              /\ \A i \in DispatchCalls :
                    /\ last.calls[i].fn = "send_query_prepared"
                    /\ last.calls[i].name = last.stmt.name
                    /\ last.calls[i].nParams = Len(last.param_data)
                    /\ Len(last.calls[i].paramValues) = Len(last.param_data)
                    /\ Len(last.calls[i].paramLengths) = Len(last.param_data)

\* C3 witness: an execute on a named statement, with a parameter, has sent
C3_Witness ==
    /\ last.op = "execute"
    /\ last.stmt.name # <<>>
    /\ Len(last.param_data) > 0
    /\ Issued("send_query_prepared")
    /\ last.ret.tag = "Ok"

\* the digits of a statement name read back as a number
DigitValue(ch) == CHOOSE d \in 0..9 : Digits[d + 1] = ch

RECURSIVE ParseDecimal(_)
ParseDecimal(text) ==
    IF Len(text) = 0 THEN 0
    ELSE 10 * ParseDecimal(SubSeq(text, 1, Len(text) - 1))
         + DigitValue(text[Len(text)])

\* a prepare with PrepareForCache::Yes { counter } that returned a Statement
PreparedCached == last.op = "prepare" /\ last.ret.tag = "Ok" /\ last.is_cached.cached

\* C4: a statement prepared with Cached{counter} is named "__diesel_stmt_"
\* followed by the decimal digits of the counter, never the empty name; the
\* statement the caller already holds and the one just prepared have the same
\* name exactly when they were prepared with the same counter.
C4_CachedNameFromCounter ==
    PreparedCached =>
        LET name == last.ret.stmt.name
            digits == SubSeq(name, Len(Prefix) + 1, Len(name))
        IN  /\ name # <<>>
            /\ Len(name) > Len(Prefix)
            /\ SubSeq(name, 1, Len(Prefix)) = Prefix
            /\ \A i \in 1..Len(digits) : \E d \in 1..10 : Digits[d] = digits[i]
            /\ Len(digits) > 1 => digits[1] # "0"
            /\ ParseDecimal(digits) = last.is_cached.counter
            /\ (held.some /\ held.is_cached.cached) =>
                  (held.stmt.name = name
                      <=> held.is_cached.counter = last.is_cached.counter)

\* C4 witness: holding the statement of counter 1, the caller prepared one with
\* counter 11
C4_Witness ==
    /\ PreparedCached
    /\ last.is_cached.counter = 11
    /\ held.some /\ held.is_cached.cached /\ held.is_cached.counter = 1

\* C5: the dispatch call of an execute with N parameter values carries count N,
\* N pointers (null exactly for the absent values), N lengths (0 for the absent
\* values, the buffer's length otherwise), N format markers, all binary, and
\* asks for binary results.
C5_DispatchCarriesNParams ==
    \A i \in DispatchCalls :
        LET c == last.calls[i]
            N == Len(last.param_data)
        IN  /\ c.nParams = N
            /\ Len(c.paramValues) = N
            /\ Len(c.paramLengths) = N
            /\ \A k \in 1..N :
                  /\ c.paramValues[k] = NullPtr <=> ~last.param_data[k].some
                  /\ c.paramLengths[k] =
                        IF last.param_data[k].some THEN last.param_data[k].len.lo ELSE 0
            /\ Len(c.paramFormats) = N
            /\ \A k \in 1..Len(c.paramFormats) : c.paramFormats[k] = Binary
            /\ c.resultFormat = Binary

\* C6: an execute given a number of values other than the number of formats
\* of its statement fails without a dispatch call; no dispatch call carries a
\* count that differs from the number of its format markers.
C6_CountMismatchFails ==
    /\ (last.op = "execute" /\ Len(last.param_data) # Len(last.stmt.param_formats))
          => (last.ret.tag = "Err" /\ DispatchCalls = {})
    /\ \A i \in DispatchCalls :
          last.calls[i].nParams = Len(last.calls[i].paramFormats)

\* a parameter value with an embedded NUL byte was given to execute
NulInParams ==
    \E k \in 1..Len(last.param_data) :
        last.param_data[k].some /\ last.param_data[k].nul

C8_OidFailureAborts ==
    (/\ last.op = "prepare"
     /\ ~HasNul(last.sql)
     /\ \E i \in 1..Len(last.param_types) : last.param_types[i] = "unresolved")
        => /\ last.ret.tag = "Err"
           /\ last.ret.err = "SerializationError"
           /\ last.ret.stmt = NoStatement
           /\ ~Issued("prepare")
           /\ last.calls = <<>>

\* C8 witness: the second of two types did not resolve
C8_Witness ==
    /\ last.op = "prepare"
    /\ last.param_types = <<"int4", "unresolved">>
    /\ last.ret.err = "SerializationError"

\* C9: prepare returns a Statement only after one native prepare call whose
\* result validated as success; a result the backend rejected gives a query error
\* and no Statement; the Statement returned has the name sent to the backend
\* (empty exactly for PrepareForCache::No) and one binary format per parameter type.
C9_StatementOnlyOnSuccess ==
    last.op = "prepare" =>
        /\ last.ret.tag \in {"Ok", "Err"}
        /\ last.ret.tag = "Ok" =>
              /\ Len(last.calls) = 1
              /\ last.calls[1].fn = "prepare"
              /\ last.calls[1].answer = "ok"
              /\ last.calls[1].sql = last.sql
              /\ last.calls[1].nParams = Len(last.param_types)
              /\ last.ret.stmt.name = last.calls[1].name
              /\ (last.ret.stmt.name = <<>>) <=> ~last.is_cached.cached
              /\ Len(last.ret.stmt.param_formats) = Len(last.param_types)
              /\ \A k \in 1..Len(last.ret.stmt.param_formats) :
                    last.ret.stmt.param_formats[k] = 1
        /\ (Issued("prepare") /\ last.calls[1].answer = "rejected") =>
              /\ last.ret.tag = "Err"
              /\ last.ret.err = "DatabaseError"
              /\ last.ret.stmt = NoStatement
        /\ last.ret.tag = "Err" => last.ret.stmt = NoStatement

\* C9 witness: the backend rejected a prepare with two parameter types
C9_WitnessRejected ==
    /\ last.op = "prepare"
    /\ Len(last.param_types) = 2
    /\ Issued("prepare")
    /\ last.calls[1].answer = "rejected"

\* C10: on an idle connection that takes every request, an execute returns the
\* result of the statement's SQL text on the parameter values after exactly one
\* server-side execution, whether the statement was prepared Cached or Uncached.
C10_CachedAndUncachedAgree ==
    (/\ Dispatched
     /\ ~last.busy_at_entry
     /\ last.native.accepted1 /\ last.native.accepted2
     /\ last.native.srm /\ last.native.fetch = "ok")
        => /\ last.ret.tag = "Ok"
           /\ last.ret.result = [sql |-> held.sql, params |-> last.param_data]
           /\ last.server_execs = 1

\* a request was in flight on the connection when native call i was issued:
\* one left undrained before the invocation, or one an earlier dispatch call of
\* the same invocation had the connection take
InFlightAt(i) ==
    \/ last.busy_at_entry
    \/ \E j \in 1..(i - 1) :
          /\ last.calls[j].fn \in {"send_query_params", "send_query_prepared"}
          /\ last.calls[j].answer = "ok"

\* C11: no native prepare call and no native dispatch call is issued while a
\* request is in flight on the connection (results of an earlier dispatch not
\* drained).
C11_OneRequestInFlight ==
    \A i \in 1..Len(last.calls) :
        last.calls[i].fn \in {"prepare", "send_query_params", "send_query_prepared"}
            => ~InFlightAt(i)

\* the fetch of the invocation, if it made one
FetchCalls == {i \in 1..Len(last.calls) : last.calls[i].fn = "get_next_result"}

\* C12: when the dispatch succeeded and the fetch yields no result, execute
\* panics; it returns Ok only with the result a fetch yielded.
C12_NoResultPanics ==
    last.op = "execute" =>
        /\ (\E i \in FetchCalls : last.calls[i].answer = "none")
              => (last.ret.tag = "Panic" /\ last.ret.result = NoResult)
        /\ last.ret.tag = "Ok"
              => /\ \E i \in FetchCalls : last.calls[i].answer = "ok"
                 /\ last.ret.result # NoResult
                 /\ last.ret.result.params = last.param_data

\* C12 witness: a named statement's dispatch was taken and the fetch yielded nothing
C12_Witness ==
    /\ last.op = "execute"
    /\ last.stmt.name # <<>>
    /\ \E i \in DispatchCalls : last.calls[i].answer = "ok"
    /\ \E i \in FetchCalls : last.calls[i].answer = "none"

\* a usize that a c_int holds
Fits(u) == u.hi = 0 /\ u.lo <= 2147483647

\* a parameter value given to execute is longer than a c_int counts
LengthOverflow ==
    \E k \in 1..Len(last.param_data) :
        last.param_data[k].some /\ ~Fits(last.param_data[k].len)

\* C13: an execute given a value whose length, or a slice whose length, does
\* not fit a c_int returns the serialization error and makes no native call; a
\* prepare given a slice of types whose length does not fit returns an error
\* (the serialization error when its SQL text converts) and makes no native
\* call; no native call carries a count or a length other than the one given.
C13_OverflowIsAnError ==
    /\ (last.op = "execute" /\ (LengthOverflow \/ ~Fits(last.param_count)))
          => /\ last.ret.tag = "Err"
             /\ last.ret.err = "SerializationError"
             /\ last.calls = <<>>
             /\ last.server_execs = 0
    /\ (last.op = "prepare" /\ ~Fits(last.param_count))
          => /\ last.ret.tag = "Err"
             /\ ~HasNul(last.sql) => last.ret.err = "SerializationError"
             /\ last.ret.stmt = NoStatement
             /\ last.calls = <<>>
    /\ \A i \in 1..Len(last.calls) :
          last.calls[i].fn \in {"prepare", "send_query_params", "send_query_prepared"}
              => /\ last.param_count.hi = 0
                 /\ last.calls[i].nParams = last.param_count.lo
                 /\ \A k \in 1..Len(last.calls[i].paramLengths) :
                       last.param_data[k].some =>
                          /\ last.param_data[k].len.hi = 0
                          /\ last.calls[i].paramLengths[k] = last.param_data[k].len.lo

\* C13 witness: execute was given a slice of 2^31 + 1 values and has failed
C13_Witness ==
    /\ last.op = "execute"
    /\ last.param_count = [hi |-> 1, lo |-> 1]
    /\ last.ret.err = "SerializationError"

\* C13 witness of the other two cases: a value of 2^31 bytes; 2^32 types
C13_WitnessLength == last.op = "execute" /\ LengthOverflow /\ last.ret.tag = "Err"
C13_WitnessPrepare ==
    /\ last.op = "prepare"
    /\ last.param_count = [hi |-> 2, lo |-> 0]
    /\ last.ret.err = "SerializationError"

C14_WitnessRejected ==
    /\ last.op = "prepare"
    /\ last.ret.err = "DatabaseError"
    /\ last.results_released = 1

\* the calls of the invocation that ask for single-row mode
SingleRowCalls ==
    {i \in 1..Len(last.calls) : last.calls[i].fn = "enable_row_by_row_mode"}

\* C15: in an execute that returns Ok the native calls are the dispatch, then
\* the call that enables single-row mode if and only if row_by_row is set, then
\* exactly one fetch, the last call; single-row mode is never asked for without
\* the flag and always before the fetch; when enabling it fails, execute
\* returns that error and fetches nothing.
C15_DispatchSingleRowFetch ==
    last.op = "execute" =>
        /\ last.ret.tag = "Ok" =>
              /\ \E d \in DispatchCalls : last.calls[d].answer = "ok"
              /\ Cardinality(FetchCalls) = 1
              /\ FetchCalls = {Len(last.calls)}
              /\ Cardinality(SingleRowCalls) = IF last.row_by_row THEN 1 ELSE 0
              /\ 1..Len(last.calls) = DispatchCalls \cup SingleRowCalls \cup FetchCalls
              /\ single_row = last.row_by_row
        /\ \A d \in DispatchCalls : \A e \in SingleRowCalls \cup FetchCalls : d < e
        /\ \A e \in SingleRowCalls : \A f \in FetchCalls : e < f
        /\ SingleRowCalls # {} => last.row_by_row
        /\ (FetchCalls # {} /\ last.row_by_row)
              => \E e \in SingleRowCalls : last.calls[e].answer = "ok"
        /\ \A e \in SingleRowCalls :
              last.calls[e].answer = "failed" =>
                 /\ last.ret.tag = "Err"
                 /\ last.ret.err = "DatabaseError"
                 /\ FetchCalls = {}
                 /\ e = Len(last.calls)

\* C15 witness: a streaming execute of a named statement has returned its result
C15_Witness ==
    /\ last.op = "execute"
    /\ last.stmt.name # <<>>
    /\ last.row_by_row
    /\ last.ret.tag = "Ok"
    /\ Len(last.calls) = 3

\* C15 witness of the failure: single-row mode was refused
C15_WitnessRefused ==
    /\ last.op = "execute"
    /\ \E e \in SingleRowCalls : last.calls[e].answer = "failed"

\* C16: a dispatch call of execute that reports failure is the last native
\* call of that execute, which returns the failure; prepare issues the native
\* prepare at most once and returns its failure.
C16_NoFailureSwallowed ==
    /\ last.op = "execute" =>
          \A i \in DispatchCalls :
              last.calls[i].answer = "failed" =>
                 /\ last.ret.tag = "Err"
                 /\ last.ret.err = "UnableToSendCommand"
                 /\ i = Len(last.calls)
    /\ last.op = "prepare" =>
          /\ Cardinality({i \in 1..Len(last.calls) : last.calls[i].fn = "prepare"}) <= 1
          /\ \A i \in 1..Len(last.calls) :
                /\ last.calls[i].answer = "null" =>
                      (last.ret.tag = "Err" /\ last.ret.err = "UnableToSendCommand")
                /\ last.calls[i].answer = "rejected" =>
                      (last.ret.tag = "Err" /\ last.ret.err = "DatabaseError")

====
